---------------------------- MODULE Spec2Model ----------------------------
(***************************************************************************)
(* Polydictions browser extension: the background polling cycle            *)
(* (checkNewEvents, service worker) and the watchlist kept in the popup's  *)
(* localStorage and mirrored to the bot API (popup.js).                    *)
(*                                                                         *)
(* The service worker and the popup are single-threaded JavaScript: a      *)
(* handler runs to its next await, so every action below is one such       *)
(* synchronous stretch, or one step of the environment (the feed, the      *)
(* storage backend, the bot API, the network).                             *)
(***************************************************************************)
EXTENDS Integers, Sequences, FiniteSets, Bags, TLC

\* ------------------------------------------------------------------ bounds

\* Longest batch the feed answers with (the request asks for limit=10).
MaxBatch == 2

\* Most requests to the bot API that are in flight at once.
MaxInFlight == 2

\* Identifiers of feed events as checkNewEvents sees them (event.id).
EventIds == {"E1", "E2", "E3"}

\* Invocations of checkNewEvents that can be live at once: the alarm listener
\* does not await the cycle it starts, so a second one may start meanwhile.
Cycles == {"c1", "c2"}

\* Identifiers of the events the popup shows and watches (event.slug).
Slugs == {"a", "b"}

\* What tells two snapshots of one event apart (volume, prices, ...).
Contents == {"v1", "v2"}

\* An absent key of a store, a null result.
None == "none"

\* ----------------------------------------------------------------- helpers

\* Sequences over S without repetition, of length at most n.
SeqsUpTo(S, n) ==
    {q \in UNION {[1..k -> S] : k \in 0..n} :
        \A i, j \in 1..Len(q) : i # j => q[i] # q[j]}

SetOf(q) == {q[i] : i \in 1..Len(q)}

\* What one fetch of the feed can answer: the ids of its events, in feed order.
Batches == SeqsUpTo(EventIds, MaxBatch)

\* --------------------------------------------------------------- the state

VARIABLES
    \* the market feed
    feed,               \* its events, the newest first
    \* chrome.alarms
    alarm,              \* the alarm 'checkNewEvents' is scheduled
    \* chrome.storage.local
    storedLastEventId,  \* key lastEventId: None while the key is absent
    \* per invocation of checkNewEvents
    pc,                 \* where the invocation stands
    events,             \* const events = await response.json()
    lastEventId,        \* const lastEventId = result.lastEventId
    newEvents,          \* const newEvents = []
    created,            \* the calls of chrome.notifications.create it made
    logged,             \* whether its catch block logged an error
    responseOk,         \* response.ok of the response its fetch resolved with
    \* the popup
    localStorage,       \* window.localStorage: the keys present, with values
    allEvents,          \* let allEvents = []
    uncaught,           \* an exception left a handler of the popup
    errorShown,         \* the overview shows 'Reload extension'
    \* the bot API and the network between the popup and it
    remoteWatchlist,    \* the watchlist the bot API holds for the user
    net                 \* the requests to the bot API that are in flight

pollVars == <<feed, alarm, storedLastEventId, pc, events, lastEventId, newEvents, created,
              logged, responseOk>>

watchVars == <<localStorage, allEvents, uncaught, errorShown, remoteWatchlist, net>>

vars == <<feed, alarm, storedLastEventId, pc, events, lastEventId, newEvents, created,
          logged, responseOk,
          localStorage, allEvents, uncaught, errorShown, remoteWatchlist, net>>

\* ------------------------------------------------- checkNewEvents, the code

\* A faulty variant: the first run is not told apart
IsFirstRunNever(last, evs) == FALSE

\* if (!lastEventId && events.length > 0)
IsFirstRun(last, evs) == last = None /\ Len(evs) > 0

RECURSIVE CollectNew(_, _, _)
\* for (const event of events) { if (event.id === lastEventId) break;
\*                               newEvents.push(event); }
CollectNew(evs, last, acc) ==
    IF evs = <<>> THEN acc
    ELSE IF Head(evs) = last THEN acc
    ELSE CollectNew(Tail(evs), last, Append(acc, Head(evs)))

\* A faulty variant: the scan does not stop at the marker: it only skips it
NewEventsSkipping(evs, last) == SelectSeq(evs, LAMBDA id : id # last)

\* A faulty variant: the scan runs over the marker to the end of the batch
NewEventsWhole(evs, last) == evs

NewEvents(evs, last) == CollectNew(evs, last, <<>>)

\* chrome.storage.local.set({ lastEventId: events[0].id })
FirstRunMarker(evs) == evs[1]

\* A faulty variant: the marker advances to the oldest novel event
AdvancedMarkerOldest(novel) == novel[Len(novel)]

\* chrome.storage.local.set({ lastEventId: newEvents[0].id })
AdvancedMarker(novel) == novel[1]

\* message: `${newEvents.length} new event(s) available!`
Notification(novel) == [count |-> Len(novel)]

\* chrome.runtime.onInstalled: the listener creates the periodic alarm, and
\* nothing else. (It fires again on an update; the alarm is then replaced.)
OnInstalled ==
    /\ alarm' = TRUE
    /\ UNCHANGED <<feed, storedLastEventId, pc, events, lastEventId, newEvents, created,
                   logged, responseOk>>
    /\ UNCHANGED watchVars

\* chrome.runtime.onStartup: the listener logs, and nothing else.
OnStartup ==
    /\ UNCHANGED pollVars
    /\ UNCHANGED watchVars

\* A faulty variant: the alarm is created without a period and fires once
AlarmFiresOnce(c) ==
    /\ alarm
    /\ pc[c] \in {"idle", "done"}
    /\ alarm' = FALSE
    /\ pc' = [pc EXCEPT ![c] = "fetch"]
    /\ events' = [events EXCEPT ![c] = <<>>]
    /\ lastEventId' = [lastEventId EXCEPT ![c] = None]
    /\ newEvents' = [newEvents EXCEPT ![c] = <<>>]
    /\ created' = [created EXCEPT ![c] = <<>>]
    /\ logged' = [logged EXCEPT ![c] = FALSE]
    /\ responseOk' = [responseOk EXCEPT ![c] = TRUE]
    /\ UNCHANGED <<feed, storedLastEventId>>
    /\ UNCHANGED watchVars

\* The alarm fires and its listener calls checkNewEvents, which runs up to
\* its first await: the fetch is issued.
AlarmFires(c) ==
    /\ alarm
    /\ pc[c] \in {"idle", "done"}
    /\ pc' = [pc EXCEPT ![c] = "fetch"]
    /\ events' = [events EXCEPT ![c] = <<>>]
    /\ lastEventId' = [lastEventId EXCEPT ![c] = None]
    /\ newEvents' = [newEvents EXCEPT ![c] = <<>>]
    /\ created' = [created EXCEPT ![c] = <<>>]
    /\ logged' = [logged EXCEPT ![c] = FALSE]
    /\ responseOk' = [responseOk EXCEPT ![c] = TRUE]
    /\ UNCHANGED storedLastEventId
    /\ UNCHANGED <<feed, alarm>>
    /\ UNCHANGED watchVars

\* A faulty variant: no try/catch around the fetch: the promise is rejected
FetchFailsUncaught(c) ==
    /\ pc[c] = "fetch"
    /\ pc' = [pc EXCEPT ![c] = "rejected"]
    /\ UNCHANGED <<storedLastEventId, events, lastEventId, newEvents, created, logged>>
    /\ UNCHANGED <<feed, alarm, responseOk>>
    /\ UNCHANGED watchVars

\* A faulty variant: the catch block also clears chrome.storage.local
FetchFailsClearing(c) ==
    /\ pc[c] = "fetch"
    /\ pc' = [pc EXCEPT ![c] = "done"]
    /\ logged' = [logged EXCEPT ![c] = TRUE]
    /\ storedLastEventId' = None
    /\ UNCHANGED <<events, lastEventId, newEvents, created>>
    /\ UNCHANGED <<feed, alarm, responseOk>>
    /\ UNCHANGED watchVars

\* fetch rejects, or response.json() throws: the catch block logs, and the
\* promise of checkNewEvents is fulfilled.
FetchFails(c) ==
    /\ pc[c] = "fetch"
    /\ pc' = [pc EXCEPT ![c] = "done"]
    /\ logged' = [logged EXCEPT ![c] = TRUE]
    /\ UNCHANGED <<storedLastEventId, events, lastEventId, newEvents, created>>
    /\ UNCHANGED <<feed, alarm, responseOk>>
    /\ UNCHANGED watchVars

\* fetch and response.json() resolve; chrome.storage.local.get is issued.
FetchResolves(c, batch) ==
    /\ pc[c] = "fetch"
    /\ pc' = [pc EXCEPT ![c] = "get"]
    /\ events' = [events EXCEPT ![c] = batch]
    /\ responseOk' = [responseOk EXCEPT ![c] = TRUE]
    /\ UNCHANGED <<storedLastEventId, lastEventId, newEvents, created, logged>>
    /\ UNCHANGED <<feed, alarm>>
    /\ UNCHANGED watchVars

\* fetch resolves with a response whose status is not 2xx and whose body is
\* a JSON array: fetch does not reject on a status, checkNewEvents does not
\* test response.ok, and response.json() parses the body as it would any.
FetchResolvesNot2xx(c, batch) ==
    /\ pc[c] = "fetch"
    /\ pc' = [pc EXCEPT ![c] = "get"]
    /\ events' = [events EXCEPT ![c] = batch]
    /\ responseOk' = [responseOk EXCEPT ![c] = FALSE]
    /\ UNCHANGED <<storedLastEventId, lastEventId, newEvents, created, logged>>
    /\ UNCHANGED <<feed, alarm>>
    /\ UNCHANGED watchVars

\* A faulty variant: the notification is raised before the marker is written
StorageGetNotifyFirst(c) ==
    LET last  == storedLastEventId
        novel == NewEvents(events[c], last)
    IN  /\ pc[c] = "get"
        /\ lastEventId' = [lastEventId EXCEPT ![c] = last]
        /\ IF IsFirstRun(last, events[c])
             THEN /\ pc' = [pc EXCEPT ![c] = "setFirst"]
                  /\ UNCHANGED newEvents
             ELSE /\ newEvents' = [newEvents EXCEPT ![c] = novel]
                  /\ pc' = [pc EXCEPT ![c] =
                               IF Len(novel) > 0 THEN "notify" ELSE "done"]
        /\ UNCHANGED <<storedLastEventId, events, created, logged>>
        /\ UNCHANGED <<feed, alarm, responseOk>>
        /\ UNCHANGED watchVars

\* A faulty variant: events[0].id is read without the test of
\* events.length: on an empty batch it throws, and the catch block logs
StorageGetThrowingOnEmpty(c) ==
    LET last  == storedLastEventId
        novel == NewEvents(events[c], last)
    IN  /\ pc[c] = "get"
        /\ lastEventId' = [lastEventId EXCEPT ![c] = last]
        /\ IF Len(events[c]) = 0
             THEN /\ pc' = [pc EXCEPT ![c] = "done"]
                  /\ logged' = [logged EXCEPT ![c] = TRUE]
                  /\ UNCHANGED newEvents
             ELSE /\ UNCHANGED logged
                  /\ IF IsFirstRun(last, events[c])
                       THEN /\ pc' = [pc EXCEPT ![c] = "setFirst"]
                            /\ UNCHANGED newEvents
                       ELSE /\ newEvents' = [newEvents EXCEPT ![c] = novel]
                            /\ pc' = [pc EXCEPT ![c] =
                                         IF Len(novel) > 0 THEN "setNew" ELSE "done"]
        /\ UNCHANGED <<storedLastEventId, events, created>>
        /\ UNCHANGED <<feed, alarm, responseOk>>
        /\ UNCHANGED watchVars

\* The storage answers the get, and the invocation runs on to its next
\* await (a storage set) or to its end.
StorageGet(c) ==
    LET last  == storedLastEventId
        novel == NewEvents(events[c], last)
    IN  /\ pc[c] = "get"
        /\ lastEventId' = [lastEventId EXCEPT ![c] = last]
        /\ IF IsFirstRun(last, events[c])
             THEN /\ pc' = [pc EXCEPT ![c] = "setFirst"]
                  /\ UNCHANGED newEvents
             ELSE /\ newEvents' = [newEvents EXCEPT ![c] = novel]
                  /\ pc' = [pc EXCEPT ![c] =
                               IF Len(novel) > 0 THEN "setNew" ELSE "done"]
        /\ UNCHANGED <<storedLastEventId, events, created, logged>>
        /\ UNCHANGED <<feed, alarm, responseOk>>
    /\ UNCHANGED watchVars

\* The storage performs the first-run set; the invocation returns.
StorageSetFirst(c) ==
    /\ pc[c] = "setFirst"
    /\ storedLastEventId' = FirstRunMarker(events[c])
    /\ pc' = [pc EXCEPT ![c] = "done"]
    /\ UNCHANGED <<events, lastEventId, newEvents, created, logged>>
    /\ UNCHANGED <<feed, alarm, responseOk>>
    /\ UNCHANGED watchVars

\* The storage performs the set of the advanced marker.
StorageSetNew(c) ==
    /\ pc[c] = "setNew"
    /\ storedLastEventId' = AdvancedMarker(newEvents[c])
    /\ pc' = [pc EXCEPT ![c] = "notify"]
    /\ UNCHANGED <<events, lastEventId, newEvents, created, logged>>
    /\ UNCHANGED <<feed, alarm, responseOk>>
    /\ UNCHANGED watchVars

\* A faulty variant: one notification for each novel event
NotifyEach(c) ==
    /\ pc[c] = "notify"
    /\ created' = [created EXCEPT ![c] =
                      [i \in 1..Len(newEvents[c]) |-> [count |-> 1, shown |-> TRUE]]]
    /\ pc' = [pc EXCEPT ![c] = "done"]
    /\ UNCHANGED <<storedLastEventId, events, lastEventId, newEvents, logged>>
    /\ UNCHANGED <<feed, alarm, responseOk>>
    /\ UNCHANGED watchVars

\* chrome.notifications.create is called and shows the notification.
Notify(c) ==
    /\ pc[c] = "notify"
    /\ created' = [created EXCEPT ![c] =
                      Append(@, [count |-> Notification(newEvents[c]).count,
                                 shown |-> TRUE])]
    /\ pc' = [pc EXCEPT ![c] = "done"]
    /\ UNCHANGED <<storedLastEventId, events, lastEventId, newEvents, logged>>
    /\ UNCHANGED <<feed, alarm, responseOk>>
    /\ UNCHANGED watchVars

\* A faulty variant: the catch block puts the marker back to the value read
NotifyFailsRollingBack(c) ==
    /\ pc[c] = "notify"
    /\ created' = [created EXCEPT ![c] =
                      Append(@, [count |-> Notification(newEvents[c]).count,
                                 shown |-> FALSE])]
    /\ logged' = [logged EXCEPT ![c] = TRUE]
    /\ pc' = [pc EXCEPT ![c] = "done"]
    /\ storedLastEventId' = lastEventId[c]
    /\ UNCHANGED <<events, lastEventId, newEvents>>
    /\ UNCHANGED <<feed, alarm, responseOk>>
    /\ UNCHANGED watchVars

\* chrome.notifications.create is called and throws: the catch block logs.
NotifyFails(c) ==
    /\ pc[c] = "notify"
    /\ created' = [created EXCEPT ![c] =
                      Append(@, [count |-> Notification(newEvents[c]).count,
                                 shown |-> FALSE])]
    /\ logged' = [logged EXCEPT ![c] = TRUE]
    /\ pc' = [pc EXCEPT ![c] = "done"]
    /\ UNCHANGED <<storedLastEventId, events, lastEventId, newEvents>>
    /\ UNCHANGED <<feed, alarm, responseOk>>
    /\ UNCHANGED watchVars

\* The answer of the feed to events?limit=10&active=true: the newest events
\* of the feed, at most MaxBatch of them.
Limited(f) == SubSeq(f, 1, IF Len(f) < MaxBatch THEN Len(f) ELSE MaxBatch)

\* The events the feed comes to hold: one more than a cycle can tell apart
\* in Batches, so that counted events can leave the answer of the feed.
FeedIds == EventIds \cup {"E4"}

\* A market opens: the feed gets a new event at its head.
FeedGrows(e) ==
    /\ e \notin SetOf(feed)
    /\ feed' = <<e>> \o feed
    /\ UNCHANGED <<alarm, storedLastEventId, pc, events, lastEventId, newEvents, created,
                   logged, responseOk>>
    /\ UNCHANGED watchVars

\* The alarm fires while no earlier invocation of checkNewEvents is under
\* way (the period is long next to a fetch).
AlarmFiresAlone(c) ==
    /\ \A d \in Cycles : pc[d] \in {"idle", "done"}
    /\ AlarmFires(c)

\* ------------------------------------------------------ popup.js, the code

\* A snapshot of an event as the feed serves it.
Event == [slug : Slugs, content : Contents]

\* What a load can put in allEvents: events of distinct slugs.
HotBatches == {B \in SUBSET Event : \A e, f \in B : e.slug = f.slug => e = f}

\* What the bot API can hold after another client wrote it: any list, with
\* repetitions, no longer than the number of slugs.
RemoteLists == UNION {[1..k -> Slugs] : k \in 0..Cardinality(Slugs)}

\* localStorage.setItem(key, value)
SetItem(ls, key, value) ==
    [k \in DOMAIN ls \cup {key} |-> IF k = key THEN value ELSE ls[k]]

\* function getWatchlist
GetWatchlist(ls) ==
    IF "watchlist" \in DOMAIN ls THEN ls["watchlist"] ELSE <<>>

\* function getWatchlistEvents
GetWatchlistEvents(ls) ==
    IF "watchlistEvents" \in DOMAIN ls THEN ls["watchlistEvents"] ELSE <<>>

\* localStorage.getItem('telegramUserId'), as the test !userId reads it
HasUserId(ls) == "telegramUserId" \in DOMAIN ls

\* events[slug] = event
MapSet(map, slug, event) ==
    [s \in DOMAIN map \cup {slug} |-> IF s = slug THEN event ELSE map[s]]

\* delete events[slug]
MapDelete(map, slug) == [s \in DOMAIN map \ {slug} |-> map[s]]

\* watchlist.includes(slug)
Includes(list, slug) == \E i \in 1..Len(list) : list[i] = slug

\* watchlist.filter(s => s !== slug)
Without(list, slug) == SelectSeq(list, LAMBDA s : s # slug)

RECURSIVE Unique(_, _)
\* [...new Set(list)]: the first occurrence of each element, in order
Unique(list, acc) ==
    IF list = <<>> THEN acc
    ELSE Unique(Tail(list),
                IF Includes(acc, Head(list)) THEN acc ELSE Append(acc, Head(list)))

\* allEvents.find(e => e.slug === slug) finds an event
Found(all, slug) == \E e \in all : e.slug = slug

\* allEvents.find(e => e.slug === slug)
Find(all, slug) == CHOOSE e \in all : e.slug = slug

\* A faulty variant: the snapshot of an unwatched event is kept
ToggleWatchlistKeeping(ls, slug, event) ==
    LET watchlist == GetWatchlist(ls)
        evs       == GetWatchlistEvents(ls)
        watched   == Includes(watchlist, slug)
        watchlist2 == IF watched THEN Without(watchlist, slug)
                                 ELSE Append(watchlist, slug)
        evs2       == IF watched THEN evs ELSE MapSet(evs, slug, event)
    IN  SetItem(SetItem(ls, "watchlist", watchlist2), "watchlistEvents", evs2)

\* function toggleWatchlist, up to the call of syncWatchlistToBot
ToggleWatchlist(ls, slug, event) ==
    LET watchlist == GetWatchlist(ls)
        evs       == GetWatchlistEvents(ls)
        watched   == Includes(watchlist, slug)
        watchlist2 == IF watched THEN Without(watchlist, slug)
                                 ELSE Append(watchlist, slug)
        evs2       == IF watched THEN MapDelete(evs, slug)
                                 ELSE MapSet(evs, slug, event)
    IN  SetItem(SetItem(ls, "watchlist", watchlist2), "watchlistEvents", evs2)

RECURSIVE RefreshMissingOnly(_, _, _)
RECURSIVE Refresh(_, _, _)
\* A faulty variant: the fresh event is stored only for a slug without entry
RefreshMissingOnly(watchlist, evs, all) ==
    IF watchlist = <<>> THEN evs
    ELSE LET slug == Head(watchlist)
         IN  RefreshMissingOnly(Tail(watchlist),
                                IF Found(all, slug) /\ slug \notin DOMAIN evs
                                  THEN MapSet(evs, slug, Find(all, slug))
                                  ELSE evs,
                                all)

\* watchlist.forEach(slug => ...) of updateWatchlistUI
Refresh(watchlist, evs, all) ==
    IF watchlist = <<>> THEN evs
    ELSE LET slug == Head(watchlist)
         IN  Refresh(Tail(watchlist),
                     IF Found(all, slug) THEN MapSet(evs, slug, Find(all, slug))
                                         ELSE evs,
                     all)

\* A faulty variant: the refresh renders the cards and stores nothing
UpdateWatchlistUIReadOnly(ls, all) == ls

\* function updateWatchlistUI, as far as it writes localStorage
UpdateWatchlistUI(ls, all) ==
    LET watchlist == GetWatchlist(ls)
        evs       == GetWatchlistEvents(ls)
    IN  IF Len(watchlist) = 0 THEN ls
        ELSE SetItem(ls, "watchlistEvents", Refresh(watchlist, evs, all))

RECURSIVE BackfillOverwriting(_, _, _)
RECURSIVE Backfill(_, _, _)
\* A faulty variant: the entry is written whether or not the slug has one
BackfillOverwriting(ls, botWatchlist, all) ==
    IF botWatchlist = <<>> THEN ls
    ELSE LET slug == Head(botWatchlist)
             evs  == GetWatchlistEvents(ls)
         IN  BackfillOverwriting(IF Found(all, slug)
                                   THEN SetItem(ls, "watchlistEvents",
                                                MapSet(evs, slug, Find(all, slug)))
                                   ELSE ls,
                                 Tail(botWatchlist), all)

\* for (const slug of botWatchlist) { ... } of syncAndUpdateWatchlist
Backfill(ls, botWatchlist, all) ==
    IF botWatchlist = <<>> THEN ls
    ELSE LET slug == Head(botWatchlist)
             evs  == GetWatchlistEvents(ls)
         IN  Backfill(IF slug \notin DOMAIN evs /\ Found(all, slug)
                        THEN SetItem(ls, "watchlistEvents",
                                     MapSet(evs, slug, Find(all, slug)))
                        ELSE ls,
                      Tail(botWatchlist), all)

RECURSIVE MergedByToggle(_, _)
\* A faulty variant: each slug of the bot's list is toggled in the local list
MergedByToggle(localWatchlist, botWatchlist) ==
    IF botWatchlist = <<>> THEN localWatchlist
    ELSE MergedByToggle(IF Includes(localWatchlist, Head(botWatchlist))
                          THEN Without(localWatchlist, Head(botWatchlist))
                          ELSE Append(localWatchlist, Head(botWatchlist)),
                        Tail(botWatchlist))

\* A faulty variant: the local list is kept and the bot's list dropped
MergedKeepingLocal(localWatchlist, botWatchlist) == Unique(localWatchlist, <<>>)

\* A faulty variant: the bot's list replaces the local one
MergedReplacing(localWatchlist, botWatchlist) == Unique(botWatchlist, <<>>)

\* A faulty variant: the two lists are concatenated, without the Set
MergedConcatenated(localWatchlist, botWatchlist) == localWatchlist \o botWatchlist

\* const merged = [...new Set([...localWatchlist, ...botWatchlist])]
Merged(localWatchlist, botWatchlist) ==
    Unique(localWatchlist \o botWatchlist, <<>>)

\* A faulty variant: the backfill runs but the merged list is not stored
SyncAndUpdateUnmerged(ls, all, answered, botWatchlist) ==
    IF answered /\ Len(botWatchlist) > 0
      THEN UpdateWatchlistUI(Backfill(ls, botWatchlist, all), all)
      ELSE UpdateWatchlistUI(ls, all)

\* function syncAndUpdateWatchlist after its await: answered is whether
\* syncWatchlistFromBot returned a list rather than null.
SyncAndUpdate(ls, all, answered, botWatchlist) ==
    IF answered /\ Len(botWatchlist) > 0
      THEN UpdateWatchlistUI(
               Backfill(SetItem(ls, "watchlist",
                                Merged(GetWatchlist(ls), botWatchlist)),
                        botWatchlist, all),
               all)
      ELSE UpdateWatchlistUI(ls, all)

\* A faulty variant: the mapping is left as it is
ClearWatchlistListOnly(ls, all) ==
    UpdateWatchlistUI(SetItem(ls, "watchlist", <<>>), all)

\* function clearWatchlist, up to the call of syncWatchlistToBot
ClearWatchlist(ls, all) ==
    UpdateWatchlistUI(SetItem(SetItem(ls, "watchlist", <<>>),
                              "watchlistEvents", <<>>),
                      all)

\* The requests in flight: a push carries the list posted, a pull nothing,
\* an answered pull the list the bot API held when it answered.
Message == [kind : {"push", "pull", "pulled"}, slugs : RemoteLists]

\* One more, one fewer request in flight.
Sent(inFlight, m) == inFlight (+) SetToBag({m})

Gone(inFlight, m) == inFlight (-) SetToBag({m})

\* A faulty variant: the push is issued without a user id
SyncWatchlistToBotAlways(ls, inFlight, watchlist) ==
    Sent(inFlight, [kind |-> "push", slugs |-> watchlist])

\* A faulty variant: the push carries the last slug of the list only
SyncWatchlistToBotLast(ls, inFlight, watchlist) ==
    IF ~HasUserId(ls) THEN inFlight
    ELSE Sent(inFlight, [kind |-> "push",
                         slugs |-> IF watchlist = <<>> THEN <<>>
                                   ELSE <<watchlist[Len(watchlist)]>>])

\* function syncWatchlistToBot, up to its await: the requests in flight
\* after the call
SyncWatchlistToBot(ls, inFlight, watchlist) ==
    IF ~HasUserId(ls) THEN inFlight
    ELSE Sent(inFlight, [kind |-> "push", slugs |-> watchlist])

\* function syncWatchlistFromBot issues a request
PullIssued(ls) == HasUserId(ls)

\* Room for the request a handler may issue.
Room == BagCardinality(net) < MaxInFlight

\* The model follows one pull at a time: a load comes after the pull of the
\* load before it has ended.
NoPull == \A m \in BagToSet(net) : m.kind = "push"

\* loadData got no hot events: showError, and nothing else (it returns
\* before syncAndUpdateWatchlist).
LoadDataFails ==
    /\ errorShown' = TRUE
    /\ UNCHANGED <<localStorage, allEvents, uncaught, remoteWatchlist, net>>
    /\ UNCHANGED pollVars

\* loadData got hot events: it sets allEvents and calls
\* syncAndUpdateWatchlist, which without a user id runs through.
LoadData(hotEvents) ==
    /\ hotEvents # {}
    /\ Room
    /\ NoPull
    /\ allEvents' = hotEvents
    /\ errorShown' = FALSE
    /\ IF PullIssued(localStorage)
         THEN /\ net' = Sent(net, [kind |-> "pull", slugs |-> <<>>])
              /\ UNCHANGED localStorage
         ELSE /\ localStorage' = SyncAndUpdate(localStorage, hotEvents, FALSE, <<>>)
              /\ UNCHANGED net
    /\ UNCHANGED <<uncaught, remoteWatchlist>>
    /\ UNCHANGED pollVars

\* The bot API answers a pull with the list it holds.
PullAnswered(m) ==
    /\ BagIn(m, net)
    /\ m.kind = "pull"
    /\ net' = Sent(Gone(net, m), [kind |-> "pulled", slugs |-> remoteWatchlist])
    /\ UNCHANGED <<localStorage, allEvents, uncaught, remoteWatchlist>>
    /\ UNCHANGED errorShown
    /\ UNCHANGED pollVars

\* The answer reaches the popup: syncWatchlistFromBot returns data.watchlist
\* and syncAndUpdateWatchlist runs on.
PullReturns(m) ==
    /\ BagIn(m, net)
    /\ m.kind = "pulled"
    /\ localStorage' = SyncAndUpdate(localStorage, allEvents, TRUE, m.slugs)
    /\ net' = Gone(net, m)
    /\ UNCHANGED <<allEvents, uncaught, remoteWatchlist>>
    /\ UNCHANGED errorShown
    /\ UNCHANGED pollVars

\* The pull fails (the bot API is unreachable, or its answer is not a
\* success): syncWatchlistFromBot catches, returns null, and
\* syncAndUpdateWatchlist runs on. A pull changes nothing at the bot API,
\* so an answer lost on its way back is this same step.
PullFails(m) ==
    /\ BagIn(m, net)
    /\ m.kind = "pull"
    /\ localStorage' = SyncAndUpdate(localStorage, allEvents, FALSE, <<>>)
    /\ net' = Gone(net, m)
    /\ UNCHANGED <<allEvents, uncaught, remoteWatchlist>>
    /\ UNCHANGED errorShown
    /\ UNCHANGED pollVars

\* The click handler of a card's star: toggleWatchlist(event.slug, event),
\* then updateWatchlistUI().
StarClick(event) ==
    LET toggled == ToggleWatchlist(localStorage, event.slug, event)
    IN  /\ Room
        /\ net' = SyncWatchlistToBot(toggled, net, GetWatchlist(toggled))
        /\ localStorage' = UpdateWatchlistUI(toggled, allEvents)
        /\ UNCHANGED <<allEvents, uncaught, remoteWatchlist>>
        /\ UNCHANGED errorShown
        /\ UNCHANGED pollVars

\* The click handler of the clear button: clearWatchlist.
ClearClick ==
    LET cleared == ClearWatchlist(localStorage, allEvents)
    IN  /\ Room
        /\ localStorage' = cleared
        /\ net' = SyncWatchlistToBot(cleared, net, <<>>)
        /\ UNCHANGED <<allEvents, uncaught, remoteWatchlist>>
        /\ UNCHANGED errorShown
        /\ UNCHANGED pollVars

\* The bot API performs a push: it replaces the list it holds.
PushApplied(m) ==
    /\ BagIn(m, net)
    /\ m.kind = "push"
    /\ remoteWatchlist' = m.slugs
    /\ net' = Gone(net, m)
    /\ UNCHANGED <<localStorage, allEvents, uncaught>>
    /\ UNCHANGED errorShown
    /\ UNCHANGED pollVars

\* A faulty variant: no try/catch around the push: the rejection is unhandled
PushFailsUncaught(m) ==
    /\ BagIn(m, net)
    /\ m.kind = "push"
    /\ net' = Gone(net, m)
    /\ uncaught' = TRUE
    /\ UNCHANGED <<localStorage, allEvents, remoteWatchlist>>
    /\ UNCHANGED errorShown
    /\ UNCHANGED pollVars

\* The push fails: syncWatchlistToBot catches and logs.
PushFails(m) ==
    /\ BagIn(m, net)
    /\ m.kind = "push"
    /\ net' = Gone(net, m)
    /\ UNCHANGED <<localStorage, allEvents, uncaught, remoteWatchlist>>
    /\ UNCHANGED errorShown
    /\ UNCHANGED pollVars

\* Another client of the bot API (the Telegram bot) rewrites the list.
RemoteEdit(list) ==
    /\ remoteWatchlist' = list
    /\ UNCHANGED <<localStorage, allEvents, uncaught, net>>
    /\ UNCHANGED errorShown
    /\ UNCHANGED pollVars

\* The user id appears in localStorage; nothing in popup.js writes the key.
UserIdStored ==
    /\ ~HasUserId(localStorage)
    /\ localStorage' = SetItem(localStorage, "telegramUserId", "u1")
    /\ UNCHANGED <<allEvents, uncaught, remoteWatchlist, net>>
    /\ UNCHANGED errorShown
    /\ UNCHANGED pollVars

\* -------------------------------------------------------- the specification

Init ==
    /\ feed = <<>>
    /\ alarm = FALSE
    /\ storedLastEventId = None
    /\ pc = [c \in Cycles |-> "idle"]
    /\ events = [c \in Cycles |-> <<>>]
    /\ lastEventId = [c \in Cycles |-> None]
    /\ newEvents = [c \in Cycles |-> <<>>]
    /\ created = [c \in Cycles |-> <<>>]
    /\ logged = [c \in Cycles |-> FALSE]
    /\ responseOk = [c \in Cycles |-> TRUE]
    /\ localStorage = <<>>
    /\ allEvents = {}
    /\ uncaught = FALSE
    /\ errorShown = FALSE
    /\ remoteWatchlist = <<>>
    /\ net = EmptyBag

NextPoll ==
    \/ OnInstalled
    \/ OnStartup
    \/ \E c \in Cycles : AlarmFires(c)
    \/ \E c \in Cycles : FetchFails(c)
    \/ \E c \in Cycles, batch \in Batches : FetchResolves(c, batch)
    \/ \E c \in Cycles : StorageGet(c)
    \/ \E c \in Cycles : StorageSetFirst(c)
    \/ \E c \in Cycles : StorageSetNew(c)
    \/ \E c \in Cycles : Notify(c)
    \/ \E c \in Cycles : NotifyFails(c)

\* The polling cycle, the feed answering with any status.
NextStatus ==
    \/ NextPoll
    \/ \E c \in Cycles, batch \in Batches : FetchResolvesNot2xx(c, batch)

\* The polling cycle against a feed that only grows at its head, one
\* invocation at a time.
NextFeed ==
    \/ OnInstalled
    \/ OnStartup
    \/ \E e \in FeedIds : FeedGrows(e)
    \/ \E c \in Cycles : AlarmFiresAlone(c)
    \/ \E c \in Cycles : FetchFails(c)
    \/ \E c \in Cycles, batch \in {Limited(feed)} : FetchResolves(c, batch)
    \/ \E c \in Cycles : StorageGet(c)
    \/ \E c \in Cycles : StorageSetFirst(c)
    \/ \E c \in Cycles : StorageSetNew(c)
    \/ \E c \in Cycles : Notify(c)
    \/ \E c \in Cycles : NotifyFails(c)

\* Every handler that reads or writes the watchlist. (A load that gets no hot
\* events shows its error and touches nothing of the watchlist: it is left
\* to NextDown, NextFrame and Next.)
NextWatch ==
    \/ \E hotEvents \in HotBatches : LoadData(hotEvents)
    \/ \E m \in Message : PullAnswered(m)
    \/ \E m \in Message : PullReturns(m)
    \/ \E m \in Message : PullFails(m)
    \/ \E event \in Event : StarClick(event)
    \/ ClearClick
    \/ \E m \in Message : PushApplied(m)
    \/ \E m \in Message : PushFails(m)
    \/ \E list \in RemoteLists : RemoteEdit(list)
    \/ UserIdStored

\* The bot API is unreachable: every request to it fails.
NextDown ==
    \/ LoadDataFails
    \/ \E hotEvents \in HotBatches : LoadData(hotEvents)
    \/ \E m \in Message : PullFails(m)
    \/ \E event \in Event : StarClick(event)
    \/ ClearClick
    \/ \E m \in Message : PushFails(m)
    \/ UserIdStored

\* The bot API is reachable and this popup is its only client: every
\* request is answered, and nobody else writes the bot's list.
NextUp ==
    \/ \E hotEvents \in HotBatches : LoadData(hotEvents)
    \/ \E m \in Message : PullAnswered(m)
    \/ \E m \in Message : PullReturns(m)
    \/ \E event \in Event : StarClick(event)
    \/ ClearClick
    \/ \E m \in Message : PushApplied(m)
    \/ UserIdStored

\* The user only stars and unstars, and this popup is the only client of
\* the bot API: whatever the bot's list holds, a push of this popup put
\* there. Requests may fail.
NextOwn ==
    \/ \E hotEvents \in HotBatches : LoadData(hotEvents)
    \/ \E m \in Message : PullAnswered(m)
    \/ \E m \in Message : PullReturns(m)
    \/ \E m \in Message : PullFails(m)
    \/ \E event \in Event : StarClick(event)
    \/ \E m \in Message : PushApplied(m)
    \/ \E m \in Message : PushFails(m)
    \/ UserIdStored

\* The service worker and the popup together. What a handler writes does
\* not depend on how many events or invocations there are, so the two run
\* side by side on little data: one invocation of checkNewEvents at a time,
\* one event the user clicks, loads of one event.
FrameCycle == {CHOOSE c \in Cycles : TRUE}

FrameEvent == CHOOSE e \in Event : TRUE

FrameBatches ==
    {B \in HotBatches :
        Cardinality(B) = 1 /\ \A e \in B : e.content = FrameEvent.content}

NextFrame ==
    \/ OnInstalled
    \/ OnStartup
    \/ \E c \in FrameCycle : AlarmFires(c)
    \/ \E c \in FrameCycle : FetchFails(c)
    \/ \E c \in FrameCycle, batch \in Batches : FetchResolves(c, batch)
    \/ \E c \in FrameCycle : StorageGet(c)
    \/ \E c \in FrameCycle : StorageSetFirst(c)
    \/ \E c \in FrameCycle : StorageSetNew(c)
    \/ \E c \in FrameCycle : Notify(c)
    \/ \E c \in FrameCycle : NotifyFails(c)
    \/ LoadDataFails
    \/ \E hotEvents \in FrameBatches : LoadData(hotEvents)
    \/ \E m \in Message : PullAnswered(m)
    \/ \E m \in Message : PullReturns(m)
    \/ \E m \in Message : PullFails(m)
    \/ \E event \in {FrameEvent} : StarClick(event)
    \/ ClearClick
    \/ \E m \in Message : PushApplied(m)
    \/ \E m \in Message : PushFails(m)
    \/ UserIdStored

Next == NextStatus \/ NextWatch \/ LoadDataFails

\* The polling cycle alone.
SpecPoll == Init /\ [][NextPoll]_vars

\* The polling cycle under a periodic alarm: while the alarm is scheduled it
\* goes on firing. Nothing obliges a fetch or the storage to answer.
SpecPollFair == SpecPoll /\ \A c \in Cycles : WF_vars(AlarmFires(c))

\* The polling cycle against a feed that may answer with an error status.
SpecStatus == Init /\ [][NextStatus]_vars

\* The polling cycle, its invocations one after the other, against a feed
\* that only grows at its head.
SpecFeed == Init /\ [][NextFeed]_vars

\* The watchlist alone.
SpecWatch == Init /\ [][NextWatch]_vars

\* The watchlist while the bot API is unreachable.
SpecDown == Init /\ [][NextDown]_vars

\* The watchlist while the bot API answers every request of its one client.
SpecUp == Init /\ [][NextUp]_vars

\* The watchlist of a user who only stars and unstars, the popup being the
\* only client of the bot API.
SpecOwn == Init /\ [][NextOwn]_vars

\* The polling cycle interleaved with the watchlist, on little data.
SpecFrame == Init /\ [][NextFrame]_vars

\* The whole extension.
Spec == Init /\ [][Next]_vars

\* ---------------------------------------------------------------- typing

TypeOK ==
    /\ feed \in SeqsUpTo(FeedIds, Cardinality(FeedIds))
    /\ responseOk \in [Cycles -> BOOLEAN]
    /\ errorShown \in BOOLEAN
    /\ alarm \in BOOLEAN
    /\ storedLastEventId \in FeedIds \cup {None}
    /\ pc \in [Cycles -> {"idle", "fetch", "get", "setFirst", "setNew",
                          "notify", "done"}]
    /\ events \in [Cycles -> SeqsUpTo(FeedIds, MaxBatch)]
    /\ lastEventId \in [Cycles -> FeedIds \cup {None}]
    /\ newEvents \in [Cycles -> SeqsUpTo(FeedIds, MaxBatch)]
    /\ \A c \in Cycles : Len(created[c]) <= 1
    /\ logged \in [Cycles -> BOOLEAN]
    /\ DOMAIN localStorage \subseteq {"watchlist", "watchlistEvents", "telegramUserId"}
    /\ allEvents \in HotBatches
    /\ uncaught \in BOOLEAN
    /\ remoteWatchlist \in RemoteLists
    /\ BagToSet(net) \subseteq Message
    /\ BagCardinality(net) <= MaxInFlight

\* ------------------------------------------------- the polling cycle, claims

\* The batch before the first occurrence of the marker m, which occurs in it.
PrefixBefore(evs, m) ==
    LET k == CHOOSE i \in 1..Len(evs) :
                 evs[i] = m /\ \A j \in 1..(i - 1) : evs[j] # m
    IN  SubSeq(evs, 1, k - 1)

\* The invocation c reads the marker in this step.
Reads(c) == pc[c] = "get" /\ pc'[c] # "get"

\* The storage performs a set of the invocation c in this step.
Writes(c) == pc[c] \in {"setFirst", "setNew"} /\ pc'[c] # pc[c]

\* C1. First run: an invocation that reads no marker and fetched a non-empty
\* batch makes no call of notifications.create, writes the identifier of the
\* first event of its batch as the marker, and ends with that write.
C1_FirstRun ==
    [][\A c \in Cycles :
          /\ (Reads(c) /\ storedLastEventId = None /\ events[c] # <<>>)
                => /\ pc'[c] = "setFirst"
                   /\ created'[c] = <<>>
                   /\ storedLastEventId' = storedLastEventId
          /\ (Writes(c) /\ lastEventId[c] = None)
                => /\ storedLastEventId' = events[c][1]
                   /\ pc'[c] = "done"
                   /\ created'[c] = <<>>
      ]_vars

\* C1, reached: a first-run invocation has ended, the marker is the first
\* identifier of its batch of two, and it has notified nothing.
C1_Witness ==
    \E c \in Cycles :
        /\ pc[c] = "done"
        /\ lastEventId[c] = None
        /\ Len(events[c]) >= 2
        /\ storedLastEventId = events[c][1]
        /\ created[c] = <<>>

\* C2. Dedup: when the marker read occurs in the batch, the novel list is
\* the batch prefix strictly before its first occurrence; a non-empty prefix
\* makes the marker the identifier of the batch's first event, an empty one
\* ends the invocation with the marker unchanged and no notification.
C2_Dedup ==
    [][\A c \in Cycles :
          /\ (Reads(c) /\ storedLastEventId \in SetOf(events[c]))
                => /\ lastEventId'[c] = storedLastEventId
                   /\ newEvents'[c] = PrefixBefore(events[c], storedLastEventId)
                   /\ storedLastEventId' = storedLastEventId
                   /\ created'[c] = <<>>
                   /\ pc'[c] = IF newEvents'[c] = <<>> THEN "done" ELSE "setNew"
          /\ (Writes(c) /\ lastEventId[c] \in SetOf(events[c]))
                => /\ newEvents[c] # <<>>
                   /\ storedLastEventId' = events[c][1]
      ]_vars

\* C2, reached: an invocation read a marker that stood second in its batch,
\* found one novel event and has advanced the marker to it.
C2_Witness ==
    \E c \in Cycles :
        /\ pc[c] = "done"
        /\ Len(events[c]) >= 2
        /\ lastEventId[c] = events[c][2]
        /\ newEvents[c] = <<events[c][1]>>
        /\ storedLastEventId = events[c][1]

\* C3. Bounded novelty: when a marker is read that does not occur in the
\* non-empty batch, the novel list is the whole batch, the marker becomes
\* the identifier of the batch's first event, and no error is logged or
\* thrown on the way to the notification.
C3_BoundedNovelty ==
    [][\A c \in Cycles :
          /\ (Reads(c) /\ storedLastEventId # None /\ events[c] # <<>>
                       /\ storedLastEventId \notin SetOf(events[c]))
                => /\ newEvents'[c] = events[c]
                   /\ pc'[c] = "setNew"
                   /\ ~logged'[c]
          /\ (Writes(c) /\ lastEventId[c] # None
                        /\ lastEventId[c] \notin SetOf(events[c]))
                => /\ storedLastEventId' = events[c][1]
                   /\ pc'[c] = "notify"
                   /\ ~logged'[c]
      ]_vars

\* C3, reached: an invocation whose marker was not in its batch of two has
\* ended, with the whole batch reported and the marker at the batch's head.
C3_Witness ==
    \E c \in Cycles :
        /\ pc[c] = "done"
        /\ lastEventId[c] # None
        /\ lastEventId[c] \notin SetOf(events[c])
        /\ Len(events[c]) >= 2
        /\ newEvents[c] = events[c]
        /\ storedLastEventId = events[c][1]
        /\ Len(created[c]) = 1

\* C4. Aggregation: an invocation calls notifications.create at most once;
\* one that has ended has called it exactly once if its novel list is
\* non-empty and not at all otherwise; the count of the call is the length
\* of the novel list.
C4_Aggregation ==
    \A c \in Cycles :
        /\ Len(created[c]) <= 1
        /\ pc[c] = "done" => (Len(created[c]) = 1 <=> newEvents[c] # <<>>)
        /\ \A i \in 1..Len(created[c]) : created[c][i].count = Len(newEvents[c])

\* C4, reached: two novel events, one notification, of count two.
C4_Witness ==
    \E c \in Cycles :
        /\ pc[c] = "done"
        /\ Len(newEvents[c]) >= 2
        /\ created[c] = <<[count |-> Len(newEvents[c]), shown |-> TRUE]>>

\* C5. Fetch failure: an invocation whose fetch fails ends there, fulfilled,
\* and neither its start nor its end changes the marker or notifies.
C5_FetchFailure ==
    [][\A c \in Cycles :
          /\ (pc[c] \in {"idle", "done"} /\ pc'[c] # pc[c])
                => storedLastEventId' = storedLastEventId /\ created'[c] = <<>>
          /\ (pc[c] = "fetch" /\ pc'[c] \notin {"fetch", "get"})
                => /\ pc'[c] = "done"
                   /\ storedLastEventId' = storedLastEventId
                   /\ created'[c] = <<>>
      ]_vars

\* C5, reached: a marker is stored and an invocation has ended in its catch
\* block without having fetched a batch.
C5_Witness ==
    \E c \in Cycles :
        /\ pc[c] = "done"
        /\ logged[c]
        /\ events[c] = <<>>
        /\ created[c] = <<>>
        /\ storedLastEventId # None

\* Where an invocation stands between its start and its end.
Live == {"fetch", "get", "setFirst", "setNew", "notify"}

\* C12. Scheduler resilience: no invocation ends otherwise than fulfilled
\* (its catch block takes every exception), no step unschedules the alarm,
\* and while the alarm is scheduled a new cycle starts after every cycle
\* that has ended, in an error or not, whatever the other invocation does
\* (it may never return from its fetch).
C12_SchedulerResilience ==
    /\ [](\A c \in Cycles : pc[c] \in Live \cup {"idle", "done"})
    /\ [][alarm => alarm']_vars
    /\ \A c \in Cycles : (alarm /\ pc[c] \in {"idle", "done"}) ~> (pc[c] = "fetch")

\* C12, reached: one invocation has ended in its catch block after a failed
\* fetch, and with the alarm still scheduled another cycle is under way.
C12_Witness ==
    \E c, d \in Cycles :
        /\ alarm
        /\ pc[d] = "done" /\ logged[d] /\ events[d] = <<>>
        /\ pc[c] = "fetch"

\* C13 as stated. Immediate first cycle: the step in which the extension is
\* installed and the alarm is created also starts a polling cycle.
C13_ImmediateFirstCycle ==
    [][(~alarm /\ alarm') => \E c \in Cycles : pc'[c] = "fetch"]_vars

\* C16. Order within a cycle: an invocation reads the marker and computes
\* its novel list only once its fetch has answered, from the batch fetched;
\* it comes to its notification only by the step in which the storage
\* performs its write of the new marker, a value other than the one it
\* read; and it calls notifications.create only after that step.
C16_OrderWithinCycle ==
    [][\A c \in Cycles :
          /\ (pc'[c] = "get" /\ pc[c] # "get")
                => pc[c] = "fetch" /\ newEvents'[c] = <<>>
          /\ (newEvents'[c] # newEvents[c] /\ newEvents'[c] # <<>>)
                => /\ pc[c] = "get"
                   /\ events'[c] = events[c]
                   /\ SetOf(newEvents'[c]) \subseteq SetOf(events[c])
          /\ (pc'[c] = "notify" /\ pc[c] # "notify")
                => /\ pc[c] = "setNew"
                   /\ storedLastEventId' = newEvents[c][1]
                   /\ storedLastEventId' # lastEventId[c]
                   /\ created'[c] = <<>>
          /\ (created'[c] # created[c] /\ created'[c] # <<>>)
                => pc[c] = "notify"
      ]_vars

\* C16, reached: the storage has performed the write of an invocation that
\* read a marker of its batch, and the notification is still to be raised.
C16_Witness ==
    \E c \in Cycles :
        /\ pc[c] = "notify"
        /\ created[c] = <<>>
        /\ lastEventId[c] \in SetOf(events[c])
        /\ storedLastEventId = newEvents[c][1]
        /\ storedLastEventId # lastEventId[c]

\* C17 as stated. Non-overlapping cycles: no two invocations have both read
\* the same marker while the write of neither has been performed.
C17_NonOverlappingCycles ==
    \A c, d \in Cycles :
        c # d => ~(/\ pc[c] = "setNew"
                   /\ pc[d] = "setNew"
                   /\ lastEventId[c] = lastEventId[d])

\* ------------------------------------------------------ the watchlist, claims

Watchlist == GetWatchlist(localStorage)

WatchlistEvents == GetWatchlistEvents(localStorage)

\* toggle(x, snapshot) called twice in immediate succession.
ToggledTwice(event) ==
    ToggleWatchlist(ToggleWatchlist(localStorage, event.slug, event),
                    event.slug, event)

\* C6 as stated. Toggle inverse: from every state, two successive calls
\* toggle(x, snapshot) leave the watchlist set and the mapping as they were.
C6_ToggleInverse ==
    \A event \in Event :
        /\ SetOf(GetWatchlist(ToggledTwice(event))) = SetOf(Watchlist)
        /\ GetWatchlistEvents(ToggledTwice(event)) = WatchlistEvents

\* C6, amended. Two successive calls toggle(x, snapshot) leave the watchlist
\* set as it was and the mapping as it was at every identifier but x; x has
\* no entry afterwards if it was not watched, and the entry snapshot if it
\* was watched.
C6_ToggleInverseAmended ==
    \A event \in Event :
        LET after == GetWatchlistEvents(ToggledTwice(event))
        IN  /\ SetOf(GetWatchlist(ToggledTwice(event))) = SetOf(Watchlist)
            /\ DOMAIN after \ {event.slug} = DOMAIN WatchlistEvents \ {event.slug}
            /\ \A s \in DOMAIN after \ {event.slug} : after[s] = WatchlistEvents[s]
            /\ IF Includes(Watchlist, event.slug)
                 THEN event.slug \in DOMAIN after /\ after[event.slug] = event
                 ELSE event.slug \notin DOMAIN after

\* C6, reached: x is watched with one snapshot stored, and toggling it twice
\* with another leaves that other snapshot stored.
C6_Witness ==
    \E event \in Event :
        /\ Includes(Watchlist, event.slug)
        /\ event.slug \in DOMAIN WatchlistEvents
        /\ WatchlistEvents[event.slug] # event
        /\ GetWatchlistEvents(ToggledTwice(event))[event.slug] = event

\* reconcile run to its end on the answer botWatchlist.
Reconciled(ls, botWatchlist) == SyncAndUpdate(ls, allEvents, TRUE, botWatchlist)

\* C7. Idempotence: from every state, with any list held by the bot API
\* (another client can have written any), reconcile run twice on that list
\* leaves the same local watchlist set as reconcile run once.
C7_MergeIdempotent ==
    LET once  == Reconciled(localStorage, remoteWatchlist)
        twice == Reconciled(once, remoteWatchlist)
    IN  SetOf(GetWatchlist(twice)) = SetOf(GetWatchlist(once))

\* C7, reached: a reconcile has merged a slug that only the bot API held
\* (it is watched without a snapshot), the local list holds a slug the bot's
\* list lacks, and a reconcile on the bot's list would change nothing.
C7_Witness ==
    /\ remoteWatchlist # <<>>
    /\ \E s \in SetOf(Watchlist) : s \notin DOMAIN WatchlistEvents
    /\ \E s \in SetOf(Watchlist) : s \notin SetOf(remoteWatchlist)
    /\ GetWatchlist(Reconciled(localStorage, remoteWatchlist)) = Watchlist

\* The answer m to a pull reaches the popup in this step.
Returns(m) == BagIn(m, net) /\ m.kind = "pulled" /\ net' = Gone(net, m)

\* C8. Union merge: when the answer to a pull arrives with a non-empty list,
\* the local watchlist set becomes its value at that moment united with the
\* list; and no arrival or failure of a pull takes a slug out of it.
C8_UnionMerge ==
    [][\A m \in Message :
          /\ (Returns(m) /\ m.slugs # <<>>)
                => SetOf(GetWatchlist(localStorage'))
                      = SetOf(Watchlist) \cup SetOf(m.slugs)
          /\ (BagIn(m, net) /\ m.kind \in {"pull", "pulled"} /\ net' = Gone(net, m))
                => SetOf(Watchlist) \subseteq SetOf(GetWatchlist(localStorage'))
      ]_vars

\* C8, reached: a slug was added by a toggle whose push is still in flight,
\* and a merge has since added a slug that only the bot API held.
C8_Witness ==
    \E s, t \in Slugs :
        /\ s # t
        /\ Watchlist = <<s, t>>
        /\ s \in DOMAIN WatchlistEvents
        /\ t \notin DOMAIN WatchlistEvents
        /\ BagIn([kind |-> "push", slugs |-> <<s>>], net)

\* C9. Degradation: while every request to the bot API fails, the keys of
\* the mapping are the slugs of the watchlist, and no exception leaves a
\* handler.
C9_Degradation ==
    /\ DOMAIN WatchlistEvents = SetOf(Watchlist)
    /\ ~uncaught

\* C9, reached: with a user id stored, two slugs are watched and a push of
\* the list is in flight, to fail.
C9_Witness ==
    /\ HasUserId(localStorage)
    /\ Len(Watchlist) = 2
    /\ DOMAIN WatchlistEvents = SetOf(Watchlist)
    /\ BagIn([kind |-> "push", slugs |-> Watchlist], net)

\* C10. Missing identity: from a state with no user id stored, no step
\* issues a request; a load leaves the local watchlist set as it was; a
\* star click flips the slug's membership and a clear empties the list and
\* the mapping.
C10_NoIdentity ==
    [][~HasUserId(localStorage) =>
          /\ net = EmptyBag /\ net' = EmptyBag
          /\ (\E hotEvents \in HotBatches : LoadData(hotEvents))
                => SetOf(GetWatchlist(localStorage')) = SetOf(Watchlist)
          /\ \A event \in Event :
                StarClick(event)
                  => (Includes(GetWatchlist(localStorage'), event.slug)
                         <=> ~Includes(Watchlist, event.slug))
          /\ ClearClick
                => /\ GetWatchlist(localStorage') = <<>>
                   /\ GetWatchlistEvents(localStorage') = <<>>
      ]_vars

\* C10, reached: no user id is stored, a load has run and a slug is watched,
\* with nothing in flight.
C10_Witness ==
    /\ ~HasUserId(localStorage)
    /\ allEvents # {}
    /\ Len(Watchlist) > 0
    /\ net = EmptyBag

\* C11 as stated. Eventual agreement: with a user id stored and the bot API
\* answering every request, when the answer of a reconcile has been merged
\* and no push or pull is outstanding any more, the local watchlist set and
\* the set the bot API holds are equal.
C11_EventualAgreement ==
    [][\A m \in Message :
          (Returns(m) /\ HasUserId(localStorage) /\ net' = EmptyBag)
              => SetOf(GetWatchlist(localStorage')) = SetOf(remoteWatchlist')
      ]_vars

\* C14. Full-replace push: with a user id stored, a star click flips the
\* slug's membership in the stored list and adds exactly one request to
\* those in flight: a push whose payload is the whole list as stored by
\* that click.
C14_FullReplacePush ==
    [][\A event \in Event :
          (HasUserId(localStorage) /\ StarClick(event))
              => LET after == GetWatchlist(localStorage')
                 IN  /\ SetOf(after) =
                            IF Includes(Watchlist, event.slug)
                              THEN SetOf(Watchlist) \ {event.slug}
                              ELSE SetOf(Watchlist) \cup {event.slug}
                     /\ net' = Sent(net, [kind |-> "push", slugs |-> after])
      ]_vars

\* C14, reached: the push of the first star click has been applied, and the
\* push of the second, alone in flight, carries both slugs.
C14_Witness ==
    /\ HasUserId(localStorage)
    /\ Len(Watchlist) = 2
    /\ remoteWatchlist = <<Watchlist[1]>>
    /\ BagCardinality(net) = 1
    /\ BagIn([kind |-> "push", slugs |-> Watchlist], net)

\* C15. Clear: from every state, a clear leaves the stored list and the
\* stored mapping empty, and adds to the requests in flight one push of the
\* empty list when a user id is stored, nothing otherwise.
C15_Clear ==
    [][ClearClick
          => /\ "watchlist" \in DOMAIN localStorage'
             /\ "watchlistEvents" \in DOMAIN localStorage'
             /\ GetWatchlist(localStorage') = <<>>
             /\ GetWatchlistEvents(localStorage') = <<>>
             /\ net' = IF HasUserId(localStorage)
                         THEN Sent(net, [kind |-> "push", slugs |-> <<>>])
                         ELSE net
      ]_vars

\* C15, reached: the bot API holds two slugs, the stored list and mapping
\* are empty and the push of the empty list is in flight.
C15_Witness ==
    /\ HasUserId(localStorage)
    /\ "watchlist" \in DOMAIN localStorage
    /\ "watchlistEvents" \in DOMAIN localStorage
    /\ Watchlist = <<>>
    /\ WatchlistEvents = <<>>
    /\ Len(remoteWatchlist) = 2
    /\ remoteWatchlist[1] # remoteWatchlist[2]
    /\ BagIn([kind |-> "push", slugs |-> <<>>], net)

\* C18. Resurrection window: when the answer to a pull arrives and carries
\* a slug that is not in the local list (the user has unstarred it, and the
\* bot API still held it when it answered), the slug is in the local list
\* afterwards, with no click of the user.
C18_Resurrection ==
    [][\A m \in Message : \A x \in Slugs :
          (Returns(m) /\ x \in SetOf(m.slugs) /\ ~Includes(Watchlist, x))
              => /\ Includes(GetWatchlist(localStorage'), x)
                 /\ allEvents' = allEvents
      ]_vars

\* C18, reached: the user starred x and unstarred it, the push of the
\* unstarring has not been applied (the bot API holds x, a push without x
\* is in flight), and a reconcile has put x back: x is in the local list
\* without the snapshot a star click would have stored.
C18_Witness ==
    \E x \in Slugs :
        /\ Includes(Watchlist, x)
        /\ x \notin DOMAIN WatchlistEvents
        /\ x \in SetOf(remoteWatchlist)
        /\ \E m \in BagToSet(net) : m.kind = "push" /\ x \notin SetOf(m.slugs)

\* C19. Key ownership frame: under every interleaving of the polling cycle
\* with the handlers of the popup, the marker changes only in the step in
\* which the storage performs a write of checkNewEvents, to the first
\* identifier of a batch that its fetch returned; no step of an invocation
\* changes the stored list or mapping; and no step that changes anything of
\* the popup or the bot API (a toggle, a clear, a reconcile with its
\* refresh, a push) changes the marker.
C19_KeyOwnership ==
    [][/\ storedLastEventId' # storedLastEventId
            => \E c \in Cycles :
                   /\ Writes(c)
                   /\ events[c] # <<>>
                   /\ storedLastEventId' = events[c][1]
       /\ (\E c \in Cycles : pc'[c] # pc[c]) => localStorage' = localStorage
       /\ watchVars' # watchVars
            => storedLastEventId' = storedLastEventId /\ pc' = pc
      ]_vars

\* C19, reached: an invocation of checkNewEvents has written the marker and
\* is about to notify, while a reconcile has merged into the local list a
\* slug that the loaded events do not hold, and a push is in flight.
C19_Witness ==
    /\ storedLastEventId # None
    /\ \E c \in Cycles : pc[c] = "notify"
    /\ \E s \in SetOf(Watchlist) : s \notin DOMAIN WatchlistEvents
    /\ \E m \in BagToSet(net) : m.kind = "push"

\* C20. Backfill completeness: when the answer to a pull arrives with a
\* non-empty list and the reconcile has run to its end, every slug of the
\* merged local list that occurs in the loaded events has an entry in the
\* mapping, whichever side it came from.
C20_BackfillComplete ==
    [][\A m \in Message :
          (Returns(m) /\ m.slugs # <<>>)
              => \A s \in SetOf(GetWatchlist(localStorage')) :
                     Found(allEvents, s)
                         => s \in DOMAIN GetWatchlistEvents(localStorage')
      ]_vars

\* C20, reached: nothing is in flight, the bot API holds a list, and of two
\* watched slugs the one that the loaded events hold has its entry while
\* the other, which they do not hold, has none.
C20_Witness ==
    \E s, t \in SetOf(Watchlist) :
        /\ Found(allEvents, s) /\ s \in DOMAIN WatchlistEvents
        /\ WatchlistEvents[s] \in allEvents
        /\ ~Found(allEvents, t) /\ t \notin DOMAIN WatchlistEvents
        /\ remoteWatchlist # <<>>
        /\ net = EmptyBag

\* ------------------------------------------------ C21: additive backfill

\* The mapping a backfill over the bot's list `list` with the batch `all`
\* leaves in the store `ls`.
Backfilled(ls, list, all) == GetWatchlistEvents(Backfill(ls, list, all))

\* The part of C21 about what one backfill writes: whatever list the bot
\* returns, the backfill keeps every entry of the mapping with its value,
\* removes none, and adds entries only for slugs of that list that had none
\* and that the fetched batch holds, with the batch's record.
BackfillOnlyAdds ==
    \A list \in RemoteLists :
        LET before == GetWatchlistEvents(localStorage)
            after  == Backfilled(localStorage, list, allEvents)
        IN  /\ DOMAIN before \subseteq DOMAIN after
            /\ \A s \in DOMAIN before : after[s] = before[s]
            /\ \A s \in DOMAIN after \ DOMAIN before :
                   /\ s \in SetOf(list)
                   /\ Found(allEvents, s)
                   /\ after[s] = Find(allEvents, s)
            /\ \A s \in SetOf(list) \ DOMAIN before :
                   Found(allEvents, s) => s \in DOMAIN after

\* C21 as stated: the backfill only adds entries for slugs that have none,
\* overwrites and removes none, and so two backfills, each over the list and
\* with the batch of its own load, leave the same mapping in either order.
C21_AdditiveBackfill ==
    /\ BackfillOnlyAdds
    /\ \A list \in RemoteLists, all \in HotBatches :
           Backfilled(Backfill(localStorage, remoteWatchlist, allEvents), list, all)
             = Backfilled(Backfill(localStorage, list, all), remoteWatchlist, allEvents)

\* C21 amended: the backfill only adds entries for slugs that have none,
\* overwrites and removes none, and so two backfills with the same fetched
\* batch leave the same mapping in either order, whatever lists the bot
\* returned. (With different batches the record of the first backfill stays.)
C21_AdditiveBackfillAmended ==
    /\ BackfillOnlyAdds
    /\ \A list, other \in RemoteLists :
           Backfilled(Backfill(localStorage, list, allEvents), other, allEvents)
             = Backfilled(Backfill(localStorage, other, allEvents), list, allEvents)

\* The answer to a pull is on its way, its list names a slug whose entry
\* differs from the record of the fetched batch and a slug that has no entry
\* but is in the batch: the backfill keeps the first and adds the second.
C21_Witness ==
    \E m \in Message :
        /\ BagIn(m, net)
        /\ m.kind = "pulled"
        /\ \E s, t \in SetOf(m.slugs) :
              LET before == GetWatchlistEvents(localStorage)
                  after  == Backfilled(localStorage, m.slugs, allEvents)
              IN  /\ s \in DOMAIN before
                  /\ Found(allEvents, s)
                  /\ before[s] # Find(allEvents, s)
                  /\ after[s] = before[s]
                  /\ t \notin DOMAIN before
                  /\ t \in DOMAIN after

\* ------------------------------------------- C22: display-time refresh

\* C22: whatever batch is in allEvents when updateWatchlistUI runs, every
\* slug of the watchlist that the batch holds has the batch's event as its
\* entry afterwards; the entry of every slug the batch does not hold is as it
\* was (present with the same value, or absent); the list is as it was.
C22_DisplayRefresh ==
    \A all \in HotBatches \cup {allEvents} :
        LET before == GetWatchlistEvents(localStorage)
            stored == UpdateWatchlistUI(localStorage, all)
            after  == GetWatchlistEvents(stored)
        IN  /\ GetWatchlist(stored) = GetWatchlist(localStorage)
            /\ \A s \in SetOf(GetWatchlist(localStorage)) :
                   Found(all, s) => s \in DOMAIN after /\ after[s] = Find(all, s)
            /\ \A s \in Slugs :
                   ~Found(all, s) =>
                       /\ s \in DOMAIN after <=> s \in DOMAIN before
                       /\ s \in DOMAIN before => after[s] = before[s]

\* The answer to a pull is on its way, so a refresh is about to run. One
\* watched slug has an entry that differs from the event allEvents holds for
\* it, and the refresh stores that event; another watched slug is not in
\* allEvents and has an entry, which the refresh keeps.
C22_Witness ==
    /\ \E m \in Message : BagIn(m, net) /\ m.kind = "pulled"
    /\ \E s, t \in SetOf(GetWatchlist(localStorage)) :
          LET before == GetWatchlistEvents(localStorage)
              after  == GetWatchlistEvents(UpdateWatchlistUI(localStorage, allEvents))
          IN  /\ s \in DOMAIN before
              /\ Found(allEvents, s)
              /\ before[s] # Find(allEvents, s)
              /\ after[s] = Find(allEvents, s)
              /\ ~Found(allEvents, t)
              /\ t \in DOMAIN before
              /\ after[t] = before[t]

\* --------------------------------------------- C23: reconcile on load

\* C23: every run of loadData invokes syncAndUpdateWatchlist, whatever the
\* event fetches gave: a step of loadData (it changes allEvents, or shows or
\* takes away the error text) with a user id stored sends the pull request
\* of syncWatchlistFromBot.
C23_ReconcileOnLoad ==
    [][(/\ HasUserId(localStorage)
        /\ (allEvents' # allEvents \/ errorShown' # errorShown))
       => \E m \in Message : m.kind = "pull" /\ net' = Sent(net, m)]_vars

\* ------------------------------------------------ C27: no double counting

\* C27: while the feed only grows at its head and the invocations of
\* checkNewEvents do not overlap, no event is in the newEvents of two
\* invocations. (An invocation keeps its newEvents until its slot is used
\* again, and the other slot runs any number of invocations meanwhile: the
\* two slots hold every pair of invocations in turn.)
C27_NoDoubleCounting ==
    \A c, d \in Cycles :
        c # d => SetOf(newEvents[c]) \cap SetOf(newEvents[d]) = {}

\* Two invocations have each found novel events and run to their end. One
\* of them got a batch without the marker it read (more events had arrived
\* than a batch holds) and failed to raise its notification.
C27_Witness ==
    \E c, d \in Cycles :
        /\ c # d
        /\ pc[c] = "done" /\ pc[d] = "done"
        /\ newEvents[c] # <<>> /\ newEvents[d] # <<>>
        /\ lastEventId[c] # None
        /\ lastEventId[c] \notin SetOf(events[c])
        /\ logged[c]
        /\ ~logged[d]

\* ------------------------------------- C24: a notification that fails

\* The invocation called chrome.notifications.create and the call threw.
NotificationFailed(c) == created[c] # <<>> /\ ~created[c][Len(created[c])].shown

\* C24: when chrome.notifications.create throws, the invocation ends with
\* its promise fulfilled (the error is caught and logged), the call is not
\* made again, and the marker stays at the value the invocation advanced
\* it to, which is not the value it read; and, invocations running one at a
\* time against a feed that grows at its head, no other invocation has any
\* of the failed one's novel events in its newEvents.
C24_NotifyFailure ==
    /\ [][\A c \in Cycles :
            (pc[c] = "notify" /\ NotificationFailed(c)')
            => /\ pc'[c] = "done"
               /\ logged'[c]
               /\ Len(created'[c]) = 1
               /\ storedLastEventId' = storedLastEventId
               /\ storedLastEventId' = AdvancedMarker(newEvents[c])
               /\ storedLastEventId' # lastEventId[c]]_vars
    /\ [](\A c, d \in Cycles :
            (c # d /\ NotificationFailed(c))
            => SetOf(newEvents[c]) \cap SetOf(newEvents[d]) = {})

\* An invocation failed to raise its notification, and a later one, which
\* read the marker the first had written, found novel events and raised its
\* notification.
C24_Witness ==
    \E c, d \in Cycles :
        /\ c # d
        /\ pc[c] = "done"
        /\ NotificationFailed(c)
        /\ lastEventId[d] = AdvancedMarker(newEvents[c])
        /\ newEvents[d] # <<>>
        /\ created[d] # <<>>
        /\ created[d][1].shown

\* ------------------------------------------------- C25: an empty batch

\* C25: an invocation whose fetch resolved with an empty batch ends when the
\* storage has answered its get, whether a marker is stored or not: it
\* writes no marker, raises no notification, finds nothing novel and logs no
\* error.
C25_EmptyBatch ==
    [][\A c \in Cycles :
        (pc[c] = "get" /\ pc'[c] # "get" /\ events[c] = <<>>)
        => /\ pc'[c] = "done"
           /\ storedLastEventId' = storedLastEventId
           /\ newEvents'[c] = <<>>
           /\ created'[c] = <<>>
           /\ ~logged'[c]]_vars

\* Two invocations got an empty batch and ran to their end without error:
\* one read no marker, the other read a marker, which is still stored.
C25_Witness ==
    \E c, d \in Cycles :
        /\ pc[c] = "done" /\ pc[d] = "done"
        /\ events[c] = <<>> /\ events[d] = <<>>
        /\ ~logged[c] /\ ~logged[d]
        /\ lastEventId[c] = None
        /\ lastEventId[d] # None
        /\ storedLastEventId = lastEventId[d]

\* ------------------------------------- C26: a response that is not 2xx

\* C26: an invocation whose fetch was answered with a status that is not 2xx
\* is a failed fetch, whatever the body: it has no storage set performed and
\* makes no call of notifications.create.
C26_Non2xxIsFailure ==
    [][\A c \in Cycles :
        ~responseOk[c] => ~Writes(c) /\ (pc[c] = "notify" => created'[c] = created[c])]_vars

\* ------------------------------------------------ C28: no orphan snapshots

\* C28: whatever the star clicks, clears, loads, pulls and pushes, answered
\* or failed, and whatever other clients write to the bot's list, every key
\* of the stored mapping is a slug of the stored watchlist.
C28_NoOrphanSnapshots == DOMAIN WatchlistEvents \subseteq SetOf(Watchlist)

\* A reconcile merged a slug of the bot's list that had no snapshot to
\* backfill, next to a slug that has one; the bot's list has been emptied
\* since.
C28_Witness ==
    /\ remoteWatchlist = <<>>
    /\ DOMAIN WatchlistEvents # {}
    /\ DOMAIN WatchlistEvents # SetOf(Watchlist)
    /\ BagCardinality(net) = 0

\* ------------------------------------------------------ C29: no duplicates

\* C29: whatever the star clicks, clears and reconciles, and whatever list
\* the bot returns (with repeated slugs, with slugs held locally), the
\* stored watchlist holds no slug twice.
C29_NoDuplicates ==
    \A i, j \in 1..Len(Watchlist) : i # j => Watchlist[i] # Watchlist[j]

\* The bot's list repeats a slug, and a reconcile has merged it: the slug is
\* in the watchlist without a snapshot (a star click would have stored one),
\* next to another slug.
C29_Witness ==
    \E s \in Slugs :
        /\ remoteWatchlist = <<s, s>>
        /\ s \in SetOf(Watchlist)
        /\ s \notin DOMAIN WatchlistEvents
        /\ Len(Watchlist) = 2

=============================================================================
